---- MODULE Spec2Model ----
(***************************************************************************)
(* Model of the settings store (src/src/settings.ts) and of the repository *)
(* selector (src/src/repository-factory.ts) of vscode-sync-settings.        *)
(*                                                                         *)
(* A JavaScript object is a function whose DOMAIN is the set of its own    *)
(* properties: a property is absent exactly when its key is not in the     *)
(* DOMAIN.  The bytes of a YAML file are a sequence of lines; a line is a  *)
(* record [k, f, v] for "k: v" (f = "") or for the nested "k:\n  f: v".     *)
(* A line with k = "#" is a comment, a line with k = "?" is text that      *)
(* yaml.parse rejects.                                                     *)
(***************************************************************************)
EXTENDS Integers, Sequences, FiniteSets, TLC

VARIABLES
    instance,   \* repository-factory.ts: let $instance (the live backend)
    settings,   \* settings.ts: let $instance (the Settings object) and its fields
    disk,       \* the file at settingsUri: [exists, data]
    created,    \* number of backends constructed so far (the next one gets created + 1)
    last,       \* the last operation run: [op, arg, out, ret, calls]
    terminated, \* the backends on which a terminate() call has completed
    seen,       \* the last bytes this process read from or wrote to settings.yml
    tasks       \* the calls of the selector that are suspended at an await

vars == <<instance, settings, disk, created, last, terminated, seen, tasks>>

----------------------------------------------------------------------------
(* Bounds *)

\* backends that may be constructed in one behaviour
MaxCreated == 2

\* calls of the selector that may be suspended at the same time
MaxTasks == 2

----------------------------------------------------------------------------
(* Values *)

\* JavaScript's undefined, where a string is expected
undefined == "<undefined>"

\* repository-type.ts (imported): the closed enumeration of backend types
RepositoryType == [DUMMY |-> "none", FILE |-> "file", GIT |-> "git", RSYNC |-> "rsync"]

Line(k, f, v) == [k |-> k, f |-> f, v |-> v]

\* the order in which yaml.stringify writes the properties of a nested object
HookNames == <<"preDownload", "postUpload">>
RepositoryKeys == <<"type", "path", "url">>
NestedKeys == [hooks |-> HookNames, repository |-> RepositoryKeys]

\* the profiles a caller passes to setProfile
Profiles == {"work"}

----------------------------------------------------------------------------
(* yaml and the hasher *)

\* JavaScript truthiness of an optional string
Truthy(s) == s # undefined /\ s # ""

\* o.key, for a string property
Prop(o, key) == IF key \in DOMAIN o THEN o[key] ELSE undefined

\* yaml.parse(data): [ok |-> FALSE] when it throws, else the parsed object
\* (an object with no property stands for both {} and null: every caller
\* applies ?? {} to the result)
yaml_parse(data) ==
    IF \E i \in DOMAIN data : data[i].k = "?"
    THEN [ok |-> FALSE, value |-> <<>>]
    ELSE [ok |-> TRUE,
          value |-> [k \in {data[i].k : i \in DOMAIN data} \ {"#"} |->
                       IF k \in DOMAIN NestedKeys
                       THEN [f \in {data[i].f : i \in {j \in DOMAIN data : data[j].k = k}} |->
                               data[CHOOSE i \in DOMAIN data : data[i].k = k /\ data[i].f = f].v]
                       ELSE data[CHOOSE i \in DOMAIN data : data[i].k = k].v]]

\* the lines of one property of the object given to yaml.stringify
PropertyLines(o, key) ==
    IF key \notin DOMAIN o THEN <<>>
    ELSE IF key \in DOMAIN NestedKeys
    THEN LET present == SelectSeq(NestedKeys[key], LAMBDA f : f \in DOMAIN o[key])
         IN  [i \in 1..Len(present) |-> Line(key, present[i], o[key][present[i]])]
    ELSE <<Line(key, "", o[key])>>

\* yaml.stringify(settings): the properties in the order save() assigns them
yaml_stringify(o) ==
    PropertyLines(o, "hooks") \o PropertyLines(o, "hostname")
        \o PropertyLines(o, "profile") \o PropertyLines(o, "repository")

\* $hasher.copy().update(data).digest('hex'): SHA-1 taken as collision free,
\* so a digest is named by the bytes it was computed from
Hash(data) == <<"SHA1", data>>

\* private _hash = '' : the digest of nothing
NoHash == <<>>

----------------------------------------------------------------------------
(* settings.ts *)

\* one call made, or one message logged, while an operation runs
Event(ev, id, arg) == [ev |-> ev, id |-> id, arg |-> arg]

\* function defaults()
defaults ==
    [hostname |-> "",
     repository |-> [type |-> RepositoryType.DUMMY, path |-> ""],
     profile |-> "main"]

\* new Settings(...): the field initialisers of the class; before load() the
\* module's $instance is undefined (loaded = FALSE)
NewSettings(loaded) ==
    [loaded |-> loaded,
     hash |-> NoHash,
     hooks |-> <<>>,
     hostname |-> undefined,
     profile |-> "",
     remote |-> FALSE,
     repository |-> [type |-> RepositoryType.DUMMY]]

\* set() keeping data.profile and data.hostname when repository is missing
set_KeepsProfile(s, data) ==
    LET remote == IF "extensionKind" \in DOMAIN data /\ data.extensionKind # "auto"
                  THEN data.extensionKind = "workspace"
                  ELSE s.remote
        hooks == IF "hooks" \in DOMAIN data THEN data.hooks ELSE <<>>
        noProfile == IF Truthy(Prop(data, "profile")) THEN <<>>
                     ELSE <<Event("Logger.error", 0, "profile")>>
        noRepository == IF "repository" \in DOMAIN data THEN <<>>
                        ELSE <<Event("Logger.error", 0, "repository")>>
    IN  [settings |-> [s EXCEPT !.remote = remote,
                                !.hooks = hooks,
                                !.hostname = Prop(data, "hostname"),
                                !.profile = IF "profile" \in DOMAIN data
                                            THEN data.profile ELSE "",
                                !.repository = IF "repository" \in DOMAIN data
                                               THEN data.repository
                                               ELSE [type |-> RepositoryType.DUMMY]],
         calls |-> noProfile \o noRepository]

\* private set(data): the fields after it, and the errors it logs
set(s, data) ==
    LET remote == IF "extensionKind" \in DOMAIN data /\ data.extensionKind # "auto"
                  THEN data.extensionKind = "workspace"
                  ELSE s.remote
        hooks == IF "hooks" \in DOMAIN data THEN data.hooks ELSE <<>>
        noProfile == IF Truthy(Prop(data, "profile")) THEN <<>>
                     ELSE <<Event("Logger.error", 0, "profile")>>
    IN  IF "repository" \in DOMAIN data
        THEN [settings |-> [s EXCEPT !.remote = remote,
                                     !.hooks = hooks,
                                     !.hostname = Prop(data, "hostname"),
                                     !.profile = IF "profile" \in DOMAIN data
                                                 THEN data.profile ELSE "",
                                     !.repository = data.repository],
              calls |-> noProfile]
        ELSE [settings |-> [s EXCEPT !.remote = remote,
                                     !.hooks = hooks,
                                     !.hostname = "",
                                     !.profile = "",
                                     !.repository = [type |-> RepositoryType.DUMMY]],
              calls |-> noProfile \o <<Event("Logger.error", 0, "repository")>>]

\* how an operation ends when it throws: by the error it throws
Errors == {"IoError", "ParseError", "BackendError", "MysteriousType", "NotInitialized"}

\* what an operation of the store leaves behind: the Settings object, the
\* file, how it ended ("true", "false", "void" or an error) and what it called
Outcome(s, d, out, calls) == [settings |-> s, disk |-> d, out |-> out, calls |-> calls]

\* save() testing this._hostname for truth instead of for being a string
SettingsData_TruthyHostname(s) ==
    (IF DOMAIN s.hooks # {} THEN "hooks" :> s.hooks ELSE <<>>)
        @@ (IF Truthy(s.hostname) THEN "hostname" :> s.hostname ELSE <<>>)
        @@ ("profile" :> s.profile)
        @@ ("repository" :> s.repository)

\* the object save() hands to yaml.stringify
SettingsData(s) ==
    (IF DOMAIN s.hooks # {} THEN "hooks" :> s.hooks ELSE <<>>)
        @@ (IF s.hostname # undefined THEN "hostname" :> s.hostname ELSE <<>>)
        @@ ("profile" :> s.profile)
        @@ ("repository" :> s.repository)

\* save() writing the file without taking the digest of what it writes
Settings_save_KeepsDigest(s, d, io) ==
    LET data == yaml_stringify(SettingsData(s))
    IN  IF io.write
        THEN Outcome(s, [exists |-> TRUE, data |-> data], "void",
                     <<Event("writeFile", 0, "settings.yml")>>)
        ELSE Outcome(s, d, "IoError", <<Event("writeFile", 0, "settings.yml")>>)

\* public async save(); io.write says whether ensureDir and writeFile succeed
Settings_save(s, d, io) ==
    LET data == yaml_stringify(SettingsData(s))
        hashed == [s EXCEPT !.hash = Hash(data)]
    IN  IF io.write
        THEN Outcome(hashed, [exists |-> TRUE, data |-> data], "void",
                     <<Event("writeFile", 0, "settings.yml")>>)
        ELSE Outcome(hashed, d, "IoError", <<Event("writeFile", 0, "settings.yml")>>)

\* public async setProfile(profile)
Settings_setProfile(s, d, profile, io) ==
    Settings_save([s EXCEPT !.profile = profile], d, io)

\* reload() digesting the text with a line break appended, unlike load()
Settings_reload_OtherDigest(s, d, io) ==
    LET read == <<Event("readFile", 0, "settings.yml")>>
        data == IF d.exists THEN d.data ELSE <<>>
        hash == Hash(data \o <<Line("#", "", "")>>)
        parsed == yaml_parse(data)
        done == IF d.exists /\ data # <<>> THEN set(s, parsed.value) ELSE set(s, defaults)
    IN  IF d.exists /\ ~io.read THEN Outcome(s, d, "IoError", read)
        ELSE LET calls == IF d.exists THEN read ELSE <<>>
             IN  IF s.hash = hash THEN Outcome(s, d, "false", calls)
                 ELSE IF d.exists /\ data # <<>> /\ ~parsed.ok
                 THEN Outcome(s, d, "ParseError", calls)
                 ELSE Outcome([done.settings EXCEPT !.hash = hash], d, "true",
                              calls \o done.calls)

\* public async reload(); io.read says whether readFile succeeds
Settings_reload(s, d, io) ==
    LET read == <<Event("readFile", 0, "settings.yml")>>
        data == IF d.exists THEN d.data ELSE <<>>
        hash == Hash(data)
        parsed == yaml_parse(data)
        done == IF d.exists /\ data # <<>> THEN set(s, parsed.value) ELSE set(s, defaults)
    IN  IF d.exists /\ ~io.read THEN Outcome(s, d, "IoError", read)
        ELSE LET calls == IF d.exists THEN read ELSE <<>>
             IN  IF s.hash = hash THEN Outcome(s, d, "false", calls)
                 ELSE IF d.exists /\ data # <<>> /\ ~parsed.ok
                 THEN Outcome(s, d, "ParseError", calls)
                 ELSE Outcome([done.settings EXCEPT !.hash = hash], d, "true",
                              calls \o done.calls)

\* load() saving the document it has just read, as it saves the defaults
Settings_load_SavesDocument(d, t, io) ==
    LET new == NewSettings(TRUE)
        read == <<Event("readFile", 0, "settings.yml")>>
        readT == <<Event("readFile", 0, "default-settings.yml")>>
        write == <<Event("writeFile", 0, "settings.yml")>>
        parsed == yaml_parse(d.data)
        parsedT == yaml_parse(t.data)
    IN  IF d.exists /\ ~io.read THEN Outcome(new, d, "IoError", read)
        ELSE IF d.exists /\ d.data # <<>>
        THEN IF ~parsed.ok THEN Outcome(new, d, "ParseError", read)
             ELSE LET done == set(new, parsed.value)
                      saved == Settings_save(done.settings, d, io)
                  IN  Outcome(saved.settings, saved.disk, saved.out,
                              read \o done.calls \o saved.calls)
        ELSE LET calls == IF d.exists THEN read ELSE <<>>
             IN  IF t.exists
                 THEN IF ~io.read THEN Outcome(new, d, "IoError", calls \o readT)
                      ELSE IF ~parsedT.ok THEN Outcome(new, d, "ParseError", calls \o readT)
                      ELSE LET done == set(new, parsedT.value)
                           IN  IF ~io.write
                               THEN Outcome(done.settings, d, "IoError",
                                            calls \o readT \o done.calls \o write)
                               ELSE Outcome([done.settings EXCEPT !.hash = Hash(t.data)],
                                            [exists |-> TRUE, data |-> t.data], "void",
                                            calls \o readT \o done.calls \o write)
                 ELSE LET done == set(new, defaults)
                          saved == Settings_save(done.settings, d, io)
                      IN  Outcome(saved.settings, saved.disk, saved.out,
                                  calls \o done.calls \o saved.calls)

\* public static async load(context): $instance is assigned before anything
\* is read, so a load() that throws leaves the freshly constructed object
Settings_load(d, t, io) ==
    LET new == NewSettings(TRUE)
        read == <<Event("readFile", 0, "settings.yml")>>
        readT == <<Event("readFile", 0, "default-settings.yml")>>
        write == <<Event("writeFile", 0, "settings.yml")>>
        parsed == yaml_parse(d.data)
        parsedT == yaml_parse(t.data)
    IN  IF d.exists /\ ~io.read THEN Outcome(new, d, "IoError", read)
        ELSE IF d.exists /\ d.data # <<>>
        THEN IF ~parsed.ok THEN Outcome(new, d, "ParseError", read)
             ELSE LET done == set(new, parsed.value)
                  IN  Outcome([done.settings EXCEPT !.hash = Hash(d.data)], d, "void",
                              read \o done.calls)
        ELSE LET calls == IF d.exists THEN read ELSE <<>>
             IN  IF t.exists
                 THEN IF ~io.read THEN Outcome(new, d, "IoError", calls \o readT)
                      ELSE IF ~parsedT.ok THEN Outcome(new, d, "ParseError", calls \o readT)
                      ELSE LET done == set(new, parsedT.value)
                           IN  IF ~io.write
                               THEN Outcome(done.settings, d, "IoError",
                                            calls \o readT \o done.calls \o write)
                               ELSE Outcome([done.settings EXCEPT !.hash = Hash(t.data)],
                                            [exists |-> TRUE, data |-> t.data], "void",
                                            calls \o readT \o done.calls \o write)
                 ELSE LET done == set(new, defaults)
                          saved == Settings_save(done.settings, d, io)
                      IN  Outcome(saved.settings, saved.disk, saved.out,
                                  calls \o done.calls \o saved.calls)

----------------------------------------------------------------------------
(* The backends of ./repositories, by their contract *)

Variants ==
    {"DummyRepository", "FileRepository", "LocalGitRepository",
     "RemoteGitRepository", "RsyncRepository"}

\* let $instance: Repository | undefined
NoInstance == [id |-> 0, variant |-> "undefined", profile |-> undefined]

\* new XRepository(settings): no namespace is active before setProfile
NewRepository(id, variant) == [id |-> id, variant |-> variant, profile |-> undefined]

\* whether a call on backend r ends normally when the transport does (ok):
\* every operation of the no-op backend succeeds trivially
Succeeds(r, ok) == ok \/ r.variant = "DummyRepository"

\* Repository.setProfile(profile): the backend after the call
Repository_setProfile(r, profile, ok) ==
    IF Succeeds(r, ok) THEN [r EXCEPT !.profile = profile] ELSE r

----------------------------------------------------------------------------
(* repository-factory.ts *)

\* create() testing settings.repository.url before settings.repository.path
Variant_UrlFirst(repository) ==
    LET type == Prop(repository, "type")
    IN  IF type = RepositoryType.DUMMY THEN "DummyRepository"
        ELSE IF type = RepositoryType.FILE THEN "FileRepository"
        ELSE IF type = RepositoryType.GIT
        THEN IF Truthy(Prop(repository, "url")) THEN "RemoteGitRepository"
             ELSE IF Truthy(Prop(repository, "path")) THEN "LocalGitRepository"
             ELSE "undefined"
        ELSE IF type = RepositoryType.RSYNC THEN "RsyncRepository"
        ELSE "undefined"

\* create() ending its chain with a plain else that builds the no-op backend
Variant_ElseDummy(repository) ==
    LET type == Prop(repository, "type")
    IN  IF type = RepositoryType.FILE THEN "FileRepository"
        ELSE IF type = RepositoryType.GIT
        THEN IF Truthy(Prop(repository, "path")) THEN "LocalGitRepository"
             ELSE IF Truthy(Prop(repository, "url")) THEN "RemoteGitRepository"
             ELSE "DummyRepository"
        ELSE IF type = RepositoryType.RSYNC THEN "RsyncRepository"
        ELSE "DummyRepository"

\* create() choosing a git backend only when exactly one of path and url is set
Variant_ExactlyOne(repository) ==
    LET type == Prop(repository, "type")
        path == Truthy(Prop(repository, "path"))
        url == Truthy(Prop(repository, "url"))
    IN  IF type = RepositoryType.DUMMY THEN "DummyRepository"
        ELSE IF type = RepositoryType.FILE THEN "FileRepository"
        ELSE IF type = RepositoryType.GIT
        THEN IF path /\ ~url THEN "LocalGitRepository"
             ELSE IF url /\ ~path THEN "RemoteGitRepository"
             ELSE "undefined"
        ELSE IF type = RepositoryType.RSYNC THEN "RsyncRepository"
        ELSE "undefined"

\* the class create() instantiates for settings.repository, "undefined" if none
Variant(repository) ==
    LET type == Prop(repository, "type")
    IN  IF type = RepositoryType.DUMMY THEN "DummyRepository"
        ELSE IF type = RepositoryType.FILE THEN "FileRepository"
        ELSE IF type = RepositoryType.GIT
        THEN IF Truthy(Prop(repository, "path")) THEN "LocalGitRepository"
             ELSE IF Truthy(Prop(repository, "url")) THEN "RemoteGitRepository"
             ELSE "undefined"
        ELSE IF type = RepositoryType.RSYNC THEN "RsyncRepository"
        ELSE "undefined"

\* async function create(settings): the new $instance, how it ended and what
\* it called; id names the object it constructs, b the faults of the backend
create(s, id, b) ==
    LET variant == Variant(s.repository)
        new == NewRepository(id, variant)
    IN  IF variant = "undefined"
        THEN [instance |-> NoInstance, out |-> "MysteriousType", calls |-> <<>>]
        ELSE [instance |-> Repository_setProfile(new, s.profile, b.setProfile),
              out |-> IF Succeeds(new, b.setProfile) THEN "void" ELSE "BackendError",
              calls |-> <<Event("new", id, variant), Event("setProfile", id, s.profile)>>]

\* the objects create() has constructed, counted from its calls
Constructions(calls) == Len(SelectSeq(calls, LAMBDA e : e.ev = "new"))

\* the faults an operation may meet: of the backend (b), of the file system (io)
Faults(setProfile, terminate) == [setProfile : setProfile, terminate : terminate]
IoFaults(read, write) == [read : read, write : write]

Done(op, arg, out, ret, calls) ==
    [op |-> op, arg |-> arg, out |-> out, ret |-> ret, calls |-> calls]

\* the backends on which an operation's terminate() completed: a call that
\* throws is the last call of an operation that ended with the backend's error
TerminateDone(calls, out) ==
    {calls[i].id : i \in {j \in DOMAIN calls :
                              /\ calls[j].ev = "terminate"
                              /\ ~(j = Len(calls) /\ out = "BackendError")}}

\* the record of the bytes transferred: not kept (the behaviours of Spec),
\* kept with nothing read or written yet, and the bytes of a read or a write
Unrecorded == [kept |-> FALSE, any |-> FALSE, data |-> <<>>]
NoBytes == [kept |-> TRUE, any |-> FALSE, data |-> <<>>]
Bytes(data) == [kept |-> TRUE, any |-> TRUE, data |-> data]

\* the last bytes read from or written to settings.yml once an operation has
\* run: a readFile gives the file as it was, a writeFile leaves it as it is
\* afterwards, and a call that throws (the last call of an operation that
\* ended with an I/O error) transfers nothing
LastBytes(old, calls, out, before, after) ==
    LET ok == {j \in DOMAIN calls :
                  /\ calls[j].ev \in {"readFile", "writeFile"}
                  /\ calls[j].arg = "settings.yml"
                  /\ ~(j = Len(calls) /\ out = "IoError")}
    IN  IF ok = {} \/ ~old.kept THEN old
        ELSE LET j == CHOOSE i \in ok : \A k \in ok : k <= i
             IN  Bytes(IF calls[j].ev = "writeFile" THEN after.data ELSE before.data)

\* no call of the selector is suspended
NoTasks == <<>>

\* what an operation run from its call to its return leaves in the record of
\* terminated backends and of the bytes transferred; it suspends nothing
Observed ==
    /\ terminated' = terminated \cup TerminateDone(last'.calls, last'.out)
    /\ seen' = LastBytes(seen, last'.calls, last'.out, disk, disk')
    /\ UNCHANGED tasks

\* get() without its "if($instance) return $instance"
Get_Uncached ==
    /\ \E b \in Faults(BOOLEAN, {TRUE}) :
           IF ~settings.loaded
           THEN /\ last' = Done("get", "", "NotInitialized", 0, <<>>)
                /\ UNCHANGED <<instance, settings, disk, created>>
           ELSE LET c == create(settings, created + 1, b)
                IN  /\ created + Constructions(c.calls) <= MaxCreated
                    /\ instance' = c.instance
                    /\ created' = created + Constructions(c.calls)
                    /\ last' = Done("get", "", IF c.out \in Errors THEN c.out ELSE "return",
                                    IF c.out \in Errors THEN 0 ELSE c.instance.id, c.calls)
                    /\ UNCHANGED <<settings, disk>>
    /\ Observed

\* RepositoryFactory.get()
Get ==
    /\ \E b \in Faults(BOOLEAN, {TRUE}) :
           IF instance # NoInstance
           THEN /\ last' = Done("get", "", "return", instance.id, <<>>)
                /\ UNCHANGED <<instance, settings, disk, created>>
           ELSE IF ~settings.loaded
           THEN /\ last' = Done("get", "", "NotInitialized", 0, <<>>)
                /\ UNCHANGED <<instance, settings, disk, created>>
           ELSE LET c == create(settings, created + 1, b)
                IN  /\ created + Constructions(c.calls) <= MaxCreated
                    /\ instance' = c.instance
                    /\ created' = created + Constructions(c.calls)
                    /\ last' = Done("get", "", IF c.out \in Errors THEN c.out ELSE "return",
                                    IF c.out \in Errors THEN 0 ELSE c.instance.id, c.calls)
                    /\ UNCHANGED <<settings, disk>>
    /\ Observed

\* reload() constructing the new backend without terminating the old one
Reload_NoTerminate ==
    /\ \E b \in Faults(BOOLEAN, BOOLEAN), io \in IoFaults(BOOLEAN, {TRUE}) :
           IF ~settings.loaded
           THEN /\ last' = Done("reload", "", "NotInitialized", 0, <<>>)
                /\ UNCHANGED <<instance, settings, disk, created>>
           ELSE LET r == Settings_reload(settings, disk, io)
                    c == create(r.settings, created + 1, b)
                IN  /\ settings' = r.settings
                    /\ UNCHANGED disk
                    /\ IF r.out = "true" /\ instance # NoInstance
                       THEN /\ created + Constructions(c.calls) <= MaxCreated
                            /\ instance' = c.instance
                            /\ created' = created + Constructions(c.calls)
                            /\ last' = Done("reload", "",
                                            IF c.out \in Errors THEN c.out ELSE "true", 0,
                                            r.calls \o c.calls)
                       ELSE /\ last' = Done("reload", "", r.out, 0, r.calls)
                            /\ UNCHANGED <<instance, created>>
    /\ Observed

\* RepositoryFactory.reload()
Reload ==
    /\ \E b \in Faults(BOOLEAN, BOOLEAN), io \in IoFaults(BOOLEAN, {TRUE}) :
           IF ~settings.loaded
           THEN /\ last' = Done("reload", "", "NotInitialized", 0, <<>>)
                /\ UNCHANGED <<instance, settings, disk, created>>
           ELSE LET r == Settings_reload(settings, disk, io)
                    terminate == <<Event("terminate", instance.id, "")>>
                    c == create(r.settings, created + 1, b)
                IN  /\ settings' = r.settings
                    /\ UNCHANGED disk
                    /\ IF r.out = "true" /\ instance # NoInstance
                       THEN IF ~Succeeds(instance, b.terminate)
                            THEN /\ last' = Done("reload", "", "BackendError", 0,
                                                 r.calls \o terminate)
                                 /\ UNCHANGED <<instance, created>>
                            ELSE /\ created + Constructions(c.calls) <= MaxCreated
                                 /\ instance' = c.instance
                                 /\ created' = created + Constructions(c.calls)
                                 /\ last' = Done("reload", "",
                                                 IF c.out \in Errors THEN c.out ELSE "true", 0,
                                                 r.calls \o terminate \o c.calls)
                       ELSE /\ last' = Done("reload", "", r.out, 0, r.calls)
                            /\ UNCHANGED <<instance, created>>
    /\ Observed

\* reset() terminating the instance without clearing $instance
Reset_KeepsInstance ==
    /\ \E b \in Faults({TRUE}, BOOLEAN) :
           IF instance # NoInstance
           THEN LET terminate == <<Event("terminate", instance.id, "")>>
                IN  /\ last' = Done("reset", "",
                                    IF Succeeds(instance, b.terminate) THEN "void"
                                    ELSE "BackendError", 0, terminate)
                    /\ UNCHANGED <<instance, settings, disk, created>>
           ELSE /\ last' = Done("reset", "", "void", 0, <<>>)
                /\ UNCHANGED <<instance, settings, disk, created>>
    /\ Observed

\* reset() forgetting the instance without calling terminate() on it
Reset_NoTerminate ==
    /\ last' = Done("reset", "", "void", 0, <<>>)
    /\ instance' = NoInstance
    /\ UNCHANGED <<settings, disk, created>>
    /\ Observed

\* RepositoryFactory.reset()
Reset ==
    /\ \E b \in Faults({TRUE}, BOOLEAN) :
           IF instance # NoInstance
           THEN LET terminate == <<Event("terminate", instance.id, "")>>
                IN  IF Succeeds(instance, b.terminate)
                    THEN /\ instance' = NoInstance
                         /\ last' = Done("reset", "", "void", 0, terminate)
                         /\ UNCHANGED <<settings, disk, created>>
                    ELSE /\ last' = Done("reset", "", "BackendError", 0, terminate)
                         /\ UNCHANGED <<instance, settings, disk, created>>
           ELSE /\ last' = Done("reset", "", "void", 0, <<>>)
                /\ UNCHANGED <<instance, settings, disk, created>>
    /\ Observed

\* setProfile() persisting the profile before it forwards it to the backend
SetProfile_StoreFirst ==
    /\ \E profile \in Profiles, b \in Faults(BOOLEAN, {TRUE}), io \in IoFaults({TRUE}, BOOLEAN) :
           LET forward == IF instance # NoInstance
                          THEN <<Event("setProfile", instance.id, profile)>> ELSE <<>>
               r == Settings_setProfile(settings, disk, profile, io)
               stored == <<Event("Settings.setProfile", 0, profile)>> \o r.calls
           IN  IF ~settings.loaded
               THEN /\ last' = Done("setProfile", profile, "NotInitialized", 0, <<>>)
                    /\ UNCHANGED <<instance, settings, disk, created>>
               ELSE /\ settings' = r.settings
                    /\ disk' = r.disk
                    /\ UNCHANGED created
                    /\ IF r.out \in Errors
                       THEN /\ last' = Done("setProfile", profile, r.out, 0, stored)
                            /\ UNCHANGED instance
                       ELSE IF instance # NoInstance /\ ~Succeeds(instance, b.setProfile)
                       THEN /\ last' = Done("setProfile", profile, "BackendError", 0,
                                            stored \o forward)
                            /\ UNCHANGED instance
                       ELSE /\ instance' = IF instance # NoInstance
                                           THEN Repository_setProfile(instance, profile,
                                                                      b.setProfile)
                                           ELSE instance
                            /\ last' = Done("setProfile", profile, r.out, 0, stored \o forward)
    /\ Observed

\* RepositoryFactory.setProfile(profile)
SetProfile ==
    /\ \E profile \in Profiles, b \in Faults(BOOLEAN, {TRUE}), io \in IoFaults({TRUE}, BOOLEAN) :
           LET forward == IF instance # NoInstance
                          THEN <<Event("setProfile", instance.id, profile)>> ELSE <<>>
               r == Settings_setProfile(settings, disk, profile, io)
           IN  IF instance # NoInstance /\ ~Succeeds(instance, b.setProfile)
               THEN /\ last' = Done("setProfile", profile, "BackendError", 0, forward)
                    /\ UNCHANGED <<instance, settings, disk, created>>
               ELSE /\ instance' = IF instance # NoInstance
                                   THEN Repository_setProfile(instance, profile, b.setProfile)
                                   ELSE instance
                    /\ IF ~settings.loaded
                       THEN /\ last' = Done("setProfile", profile, "NotInitialized", 0, forward)
                            /\ UNCHANGED <<settings, disk>>
                       ELSE /\ settings' = r.settings
                            /\ disk' = r.disk
                            /\ last' = Done("setProfile", profile, r.out, 0,
                                            forward \o <<Event("Settings.setProfile", 0, profile)>>
                                                \o r.calls)
                    /\ UNCHANGED created
    /\ Observed

----------------------------------------------------------------------------
(* The store called directly by the host, and the user editing the file *)

NoFile == [exists |-> FALSE, data |-> <<>>]
File(data) == [exists |-> TRUE, data |-> data]

\* the bundled src/resources/default-settings.yml
DefaultSettingsYml ==
    <<Line("hostname", "", ""), Line("profile", "", "main"),
      Line("repository", "type", "none")>>

\* the extension is packaged with or without its src/resources
Templates == {NoFile, File(DefaultSettingsYml)}

\* Settings.load(context)
Load ==
    /\ \E template \in Templates, io \in IoFaults(BOOLEAN, BOOLEAN) :
           LET r == Settings_load(disk, template, io)
           IN  /\ settings' = r.settings
               /\ disk' = r.disk
               /\ last' = Done("Settings.load", "", r.out, 0, r.calls)
               /\ UNCHANGED <<instance, created>>
    /\ Observed

\* Settings.get().save()
Save ==
    /\ \E io \in IoFaults({TRUE}, BOOLEAN) :
           LET r == Settings_save(settings, disk, io)
           IN  /\ settings.loaded
               /\ settings' = r.settings
               /\ disk' = r.disk
               /\ last' = Done("Settings.save", "", r.out, 0, r.calls)
               /\ UNCHANGED <<instance, created>>
    /\ Observed

\* documents a user may leave in settings.yml
DocFile ==
    <<Line("profile", "", "main"), Line("repository", "type", "file"),
      Line("repository", "path", "p")>>
DocLocalGit ==
    <<Line("hostname", "", "h"), Line("profile", "", "work"),
      Line("repository", "type", "git"), Line("repository", "path", "p")>>
DocRemoteGit ==
    <<Line("repository", "url", "u"), Line("repository", "type", "git"),
      Line("repository", "path", ""), Line("profile", "", "main")>>
DocGitBoth ==
    <<Line("profile", "", "main"), Line("repository", "type", "git"),
      Line("repository", "path", "p"), Line("repository", "url", "u")>>
DocGitNeither ==
    <<Line("profile", "", "main"), Line("repository", "type", "git")>>
DocRsync ==
    <<Line("hooks", "postUpload", "cmd"), Line("profile", "", "main"),
      Line("repository", "type", "rsync"), Line("repository", "url", "u")>>
DocDummy ==
    <<Line("#", "", "no backend"), Line("repository", "type", "none")>>
DocUnknownType ==
    <<Line("profile", "", "main"), Line("repository", "type", "webdav")>>
DocNoRepository ==
    <<Line("hostname", "", "h"), Line("profile", "", "main")>>
DocMalformed == <<Line("profile", "", "main"), Line("?", "", "")>>
DocEmpty == <<>>

Documents ==
    {DocFile, DocLocalGit, DocRemoteGit, DocGitBoth, DocGitNeither, DocRsync, DocDummy,
     DocUnknownType, DocNoRepository, DocMalformed, DocEmpty}

\* the user writes the file
ExternalEdit ==
    /\ \E data \in Documents :
           /\ disk' = File(data)
           /\ last' = Done("edit", "", "void", 0, <<>>)
           /\ UNCHANGED <<instance, settings, created>>
    /\ Observed

\* the user deletes the file
ExternalDelete ==
    /\ disk' = NoFile
    /\ last' = Done("delete", "", "void", 0, <<>>)
    /\ UNCHANGED <<instance, settings, created>>
    /\ Observed

----------------------------------------------------------------------------

Init ==
    /\ instance = NoInstance
    /\ settings = NewSettings(FALSE)
    /\ disk \in {NoFile} \cup {File(data) : data \in Documents}
    /\ created = 0
    /\ last = Done("init", "", "void", 0, <<>>)
    /\ terminated = {}
    /\ seen = Unrecorded
    /\ tasks = NoTasks

Next ==
    \/ Get
    \/ Reload
    \/ Reset
    \/ SetProfile
    \/ Load
    \/ Save
    \/ ExternalEdit
    \/ ExternalDelete

Spec == Init /\ [][Next]_vars

\* The store alone, with the record of the bytes it transfers kept: the
\* selector never constructs a backend, its reload() and setProfile() are
\* calls of Settings.reload() and Settings.setProfile()
InitStore ==
    /\ instance = NoInstance
    /\ settings = NewSettings(FALSE)
    /\ disk \in {NoFile} \cup {File(data) : data \in Documents}
    /\ created = 0
    /\ last = Done("init", "", "void", 0, <<>>)
    /\ terminated = {}
    /\ seen = NoBytes
    /\ tasks = NoTasks

NextStore ==
    \/ Load
    \/ Reload
    \/ Save
    \/ SetProfile
    \/ ExternalEdit
    \/ ExternalDelete

SpecStore == InitStore /\ [][NextStore]_vars

----------------------------------------------------------------------------
(* The selector's async functions, step by step.  A call runs until its     *)
(* next await, where it is suspended and other calls may run; it resumes    *)
(* when the awaited call completes.  The calls on the file and on the       *)
(* backends complete normally here: only the interleaving is at issue.      *)

\* a suspended call: the function, the await it is suspended at, the backend
\* the awaited call was made on and the profile passed to it
Task(op, pc, id, arg) == [op |-> op, pc |-> pc, id |-> id, arg |-> arg]

Remove(seq, i) == SubSeq(seq, 1, i - 1) \o SubSeq(seq, i + 1, Len(seq))

\* create(settings) up to its await: $instance is cleared, the backend is
\* constructed and stored, and setProfile(settings.profile) is called on it
create_called(s, id) ==
    LET variant == Variant(s.repository)
    IN  IF variant = "undefined"
        THEN [instance |-> NoInstance, out |-> "MysteriousType", calls |-> <<>>]
        ELSE [instance |-> NewRepository(id, variant), out |-> "await",
              calls |-> <<Event("new", id, variant), Event("setProfile", id, s.profile)>>]

\* $instance once the setProfile() that a suspended create() awaits has
\* completed: the backend it was called on has the profile, if still held
create_returned(task) ==
    IF instance.id = task.id THEN Repository_setProfile(instance, task.arg, TRUE)
    ELSE instance

\* get() is called: it returns the live instance, or runs create() up to
\* its await
GetCall ==
    /\ Len(tasks) < MaxTasks
    /\ UNCHANGED <<settings, disk, terminated, seen>>
    /\ IF instance # NoInstance
       THEN /\ last' = Done("get", "", "return", instance.id, <<>>)
            /\ UNCHANGED <<instance, created, tasks>>
       ELSE IF ~settings.loaded
       THEN /\ last' = Done("get", "", "NotInitialized", 0, <<>>)
            /\ UNCHANGED <<instance, created, tasks>>
       ELSE LET c == create_called(settings, created + 1)
            IN  /\ created + Constructions(c.calls) <= MaxCreated
                /\ instance' = c.instance
                /\ created' = created + Constructions(c.calls)
                /\ last' = Done("get", "", c.out, 0, c.calls)
                /\ tasks' = IF c.out = "await"
                            THEN Append(tasks, Task("get", "create", created + 1,
                                                    settings.profile))
                            ELSE tasks

\* get() resumes after "await create(settings)" and returns $instance as it
\* is now
GetReturn ==
    \E i \in DOMAIN tasks :
        /\ tasks[i].op = "get" /\ tasks[i].pc = "create"
        /\ instance' = create_returned(tasks[i])
        /\ last' = Done("get", "", "return", instance.id, <<>>)
        /\ tasks' = Remove(tasks, i)
        /\ UNCHANGED <<settings, disk, created, terminated, seen>>

\* reload() is called: it is suspended at "await settings.reload()"
ReloadCall ==
    /\ Len(tasks) < MaxTasks
    /\ UNCHANGED <<instance, settings, disk, created, terminated, seen>>
    /\ IF ~settings.loaded
       THEN /\ last' = Done("reload", "", "NotInitialized", 0, <<>>)
            /\ UNCHANGED tasks
       ELSE /\ last' = Done("reload", "", "await", 0, <<>>)
            /\ tasks' = Append(tasks, Task("reload", "reload", 0, ""))

\* settings.reload() reads the file and completes; reload() resumes and
\* returns, or calls terminate() on the live instance
ReloadRead ==
    \E i \in DOMAIN tasks :
        /\ tasks[i].op = "reload" /\ tasks[i].pc = "reload"
        /\ LET r == Settings_reload(settings, disk, [read |-> TRUE, write |-> TRUE])
           IN  /\ settings' = r.settings
               /\ IF r.out = "true" /\ instance # NoInstance
                  THEN /\ last' = Done("reload", "", "await", 0,
                                       r.calls \o <<Event("terminate", instance.id, "")>>)
                       /\ tasks' = [tasks EXCEPT ![i] =
                                       Task("reload", "terminate", instance.id, "")]
                  ELSE /\ last' = Done("reload", "", r.out, 0, r.calls)
                       /\ tasks' = Remove(tasks, i)
        /\ UNCHANGED <<instance, disk, created, terminated, seen>>

\* the terminate() that reload() awaits completes; reload() resumes and runs
\* create() up to its await
ReloadTerminated ==
    \E i \in DOMAIN tasks :
        /\ tasks[i].op = "reload" /\ tasks[i].pc = "terminate"
        /\ terminated' = terminated \cup {tasks[i].id}
        /\ LET c == create_called(settings, created + 1)
           IN  /\ created + Constructions(c.calls) <= MaxCreated
               /\ instance' = c.instance
               /\ created' = created + Constructions(c.calls)
               /\ last' = Done("reload", "", c.out, 0, c.calls)
               /\ tasks' = IF c.out = "await"
                           THEN [tasks EXCEPT ![i] = Task("reload", "create", created + 1,
                                                          settings.profile)]
                           ELSE Remove(tasks, i)
        /\ UNCHANGED <<settings, disk, seen>>

\* reload() resumes after "await create(settings)" and returns true
ReloadReturn ==
    \E i \in DOMAIN tasks :
        /\ tasks[i].op = "reload" /\ tasks[i].pc = "create"
        /\ instance' = create_returned(tasks[i])
        /\ last' = Done("reload", "", "true", 0, <<>>)
        /\ tasks' = Remove(tasks, i)
        /\ UNCHANGED <<settings, disk, created, terminated, seen>>

\* reset() is called: it returns when there is no instance, or calls
\* terminate() on the live instance
ResetCall ==
    /\ Len(tasks) < MaxTasks
    /\ UNCHANGED <<instance, settings, disk, created, terminated, seen>>
    /\ IF instance # NoInstance
       THEN /\ last' = Done("reset", "", "await", 0,
                            <<Event("terminate", instance.id, "")>>)
            /\ tasks' = Append(tasks, Task("reset", "terminate", instance.id, ""))
       ELSE /\ last' = Done("reset", "", "void", 0, <<>>)
            /\ UNCHANGED tasks

\* the terminate() that reset() awaits completes; reset() resumes and clears
\* $instance
ResetReturn ==
    \E i \in DOMAIN tasks :
        /\ tasks[i].op = "reset" /\ tasks[i].pc = "terminate"
        /\ terminated' = terminated \cup {tasks[i].id}
        /\ instance' = NoInstance
        /\ last' = Done("reset", "", "void", 0, <<>>)
        /\ tasks' = Remove(tasks, i)
        /\ UNCHANGED <<settings, disk, created, seen>>

\* the store as a completed Settings.load() of the settings file leaves it
Loaded(data) ==
    Settings_load(File(data), NoFile, [read |-> TRUE, write |-> TRUE]).settings

\* the extension has been activated: Settings.load() has read a document and
\* no call of the selector has been made yet
InitAsync ==
    /\ \E data \in {d \in Documents : d # <<>> /\ yaml_parse(d).ok} :
           /\ disk = File(data)
           /\ settings = Loaded(data)
    /\ instance = NoInstance
    /\ created = 0
    /\ last = Done("init", "", "void", 0, <<>>)
    /\ terminated = {}
    /\ seen = Unrecorded
    /\ tasks = NoTasks

NextAsync ==
    \/ GetCall
    \/ GetReturn
    \/ ReloadCall
    \/ ReloadRead
    \/ ReloadTerminated
    \/ ReloadReturn
    \/ ResetCall
    \/ ResetReturn
    \/ ExternalEdit
    \/ ExternalDelete

SpecAsync == InitAsync /\ [][NextAsync]_vars

----------------------------------------------------------------------------
(* Properties.  A step belongs to the operation named by last'.op; out is   *)
(* how that operation ended, ret what get() returned and calls what it      *)
(* called, in order.                                                        *)

\* the operation met a fault of its environment: the file system or the
\* backend's transport failed
Faulted(out) == out \in {"IoError", "BackendError"}

\* load() has read or written the settings file: the store holds a digest
HasLoaded == settings.loaded /\ settings.hash # NoHash

\* get() hands back the live instance it found and constructs nothing
ReturnsHeld ==
    /\ instance'.id = instance.id
    /\ created' = created
    /\ last'.op = "get" =>
           last'.out = "return" /\ last'.ret = instance.id /\ last'.calls = <<>>

\* C1 as stated: while a live instance is held (after a completed load()),
\* every step that is neither a reset() nor a reload() that returned true,
\* and that meets no fault of the file system or of a backend, keeps the
\* very same instance, and a get() returns it without constructing.
C1_AsStated ==
    [][(/\ instance # NoInstance /\ HasLoaded
        /\ last'.op # "reset"
        /\ ~(last'.op = "reload" /\ last'.out = "true")
        /\ ~Faulted(last'.out))
       => ReturnsHeld]_vars

\* C1, amended: while a live instance is held, every step that is neither a
\* reset() nor a reload() that read a changed document (whether that reload
\* returned true or failed) keeps the very same instance, and a get() returns
\* it without constructing anything.
C1_ReferenceStability ==
    [][(/\ instance # NoInstance
        /\ last'.op # "reset"
        /\ ~(last'.op = "reload" /\ settings' # settings))
       => ReturnsHeld]_vars

\* a get() has returned the file backend, built for profile "main", after a
\* setProfile("work") went through: the instance is the first one constructed
C1_Witness ==
    /\ last.op = "get" /\ last.out = "return" /\ last.calls = <<>>
    /\ last.ret = 1 /\ instance.id = 1
    /\ instance.variant = "FileRepository" /\ instance.profile = "work"

\* a repository section has the property key, with some text in it
Gives(repository, key) == key \in DOMAIN repository /\ repository[key] # ""

\* the backend a repository section names, case by case
Names(repository, variant) ==
    \/ repository.type = "none" /\ variant = "DummyRepository"
    \/ repository.type = "file" /\ variant = "FileRepository"
    \/ repository.type = "git" /\ Gives(repository, "path")
           /\ variant = "LocalGitRepository"
    \/ repository.type = "git" /\ Gives(repository, "url") /\ ~Gives(repository, "path")
           /\ variant = "RemoteGitRepository"
    \/ repository.type = "rsync" /\ variant = "RsyncRepository"

\* C2: a get() that finds no live instance and returns has constructed exactly
\* one backend, the one the document names, has called setProfile with the
\* document's profile on it exactly once, after constructing it, and returns
\* it; and whenever the document names a backend, get() constructs that one
\* and calls setProfile(document.profile) on it.
C2_VariantSelection ==
    [][(last'.op = "get" /\ instance = NoInstance /\ settings.loaded) =>
          /\ last'.out = "return" =>
                /\ Names(settings.repository, instance'.variant)
                /\ instance'.id = created + 1 /\ created' = created + 1
                /\ instance'.profile = settings.profile
                /\ last'.ret = instance'.id
                /\ last'.calls = <<Event("new", created + 1, instance'.variant),
                                   Event("setProfile", created + 1, settings.profile)>>
          /\ \A v \in Variants :
                Names(settings.repository, v) =>
                    last'.calls = <<Event("new", created + 1, v),
                                    Event("setProfile", created + 1, settings.profile)>>
      ]_vars

\* get() has constructed and returned the remote git backend for a document
\* of type git with a url and an empty path
C2_Witness ==
    /\ last.op = "get" /\ last.out = "return" /\ Len(last.calls) = 2
    /\ instance.variant = "RemoteGitRepository" /\ last.ret = instance.id
    /\ settings.repository.type = "git"

\* a repository section that selects nothing: git with neither path nor url,
\* or a type outside the enumeration
SelectsNothing(repository) ==
    \/ /\ repository.type = "git"
       /\ "path" \notin DOMAIN repository
       /\ "url" \notin DOMAIN repository
    \/ repository.type \notin {"none", "file", "git", "rsync"}

\* C3: a get() that finds no live instance, on a document of type git with
\* neither path nor url or of a type outside none/file/git/rsync, fails with
\* the "mysterious type" error and constructs no backend.
C3_MysteriousType ==
    [][(/\ last'.op = "get" /\ instance = NoInstance /\ settings.loaded
        /\ SelectsNothing(settings.repository))
       => /\ last'.out = "MysteriousType"
          /\ last'.calls = <<>>
          /\ instance' = NoInstance
          /\ created' = created]_vars

\* get() has failed on a document of type git that gives neither path nor url
C3_Witness ==
    /\ last.op = "get" /\ last.out = "MysteriousType"
    /\ settings.repository = [type |-> "git"]
    /\ instance = NoInstance

\* the text reload() reads: nothing when the file is absent
OnDisk == IF disk.exists THEN disk.data ELSE <<>>

\* the file no longer holds the bytes whose digest the store keeps
Changed == settings.hash # Hash(OnDisk)

\* the calls an operation made on backends, in order
Lifecycle(calls) == SelectSeq(calls, LAMBDA e : e.ev \in {"terminate", "new", "setProfile"})

\* C4: a Selector.reload() that reads bytes whose digest equals the store's
\* returns false, calls neither terminate() nor a constructor, and leaves the
\* live instance and every field of the store as they were.
C4_ReloadUnchanged ==
    [][(/\ last'.op = "reload" /\ settings.loaded
        /\ ~Changed
        /\ last'.out # "IoError")
       => /\ last'.out = "false"
          /\ Lifecycle(last'.calls) = <<>>
          /\ UNCHANGED <<instance, settings, disk, created>>]_vars

\* reload() has returned false while the rsync backend is live
C4_Witness ==
    /\ last.op = "reload" /\ last.out = "false"
    /\ instance.variant = "RsyncRepository"
    /\ ~Changed

\* reload() returned true having terminated the old instance once and then
\* constructed one fresh instance from the new document, now the live one
Replaced ==
    /\ last'.out = "true"
    /\ created' = created + 1
    /\ \E v \in Variants :
          /\ Names(settings'.repository, v)
          /\ instance' = [id |-> created + 1, variant |-> v, profile |-> settings'.profile]
          /\ Lifecycle(last'.calls) =
                 <<Event("terminate", instance.id, ""), Event("new", created + 1, v),
                   Event("setProfile", created + 1, settings'.profile)>>

\* C5 as stated: a Selector.reload() that finds the file changed to a
\* document that parses while an instance is live (after a completed load(),
\* and meeting no fault of the file system or of a backend) returns true,
\* terminates the old instance exactly once and then constructs exactly one
\* fresh instance.
C5_AsStated ==
    [][(/\ last'.op = "reload" /\ HasLoaded
        /\ instance # NoInstance /\ Changed
        /\ ~Faulted(last'.out) /\ last'.out # "ParseError")
       => Replaced]_vars

\* C5, amended: a Selector.reload() that finds the file changed while an
\* instance is live never constructs before it has terminated the old
\* instance, terminates at most once and constructs at most once; and when
\* the changed document was read into the store and names a backend, and no
\* call on a backend failed, it returns true, has terminated the old instance
\* exactly once and only then constructed exactly one fresh instance from
\* the new document, which is the live instance.
C5_TerminateThenCreate ==
    [][(/\ last'.op = "reload" /\ settings.loaded
        /\ instance # NoInstance /\ Changed)
       => LET calls == Lifecycle(last'.calls)
          IN  /\ \A j \in DOMAIN calls :
                    calls[j].ev = "new" =>
                        j = 2 /\ calls[1] = Event("terminate", instance.id, "")
              /\ Len(SelectSeq(calls, LAMBDA e : e.ev = "terminate")) <= 1
              /\ created' - created = Constructions(calls)
              /\ Constructions(calls) <= 1
              /\ (/\ settings'.hash = Hash(OnDisk)
                  /\ \E v \in Variants : Names(settings'.repository, v)
                  /\ ~Faulted(last'.out))
                 => Replaced]_vars

\* reload() has replaced the first backend by a local git backend
C5_Witness ==
    /\ last.op = "reload" /\ last.out = "true"
    /\ Len(Lifecycle(last.calls)) = 3
    /\ Lifecycle(last.calls)[1] = Event("terminate", 1, "")
    /\ instance.id = 2 /\ instance.variant = "LocalGitRepository"

\* the profile the file on disk gives, "<undefined>" when it gives none
ProfileOnDisk(d) ==
    IF \E i \in DOMAIN d.data : d.data[i].k = "profile"
    THEN d.data[CHOOSE i \in DOMAIN d.data : d.data[i].k = "profile"].v
    ELSE undefined

\* C6: in a Selector.setProfile(p) with a live instance the backend's
\* setProfile(p) is the first call made, before the store is touched; if it
\* fails, nothing else is called and the store's fields, its digest and the
\* file are as before; the store and the file change only when it did not
\* fail, and when the whole operation succeeds the backend, the store and
\* the file all carry p.
C6_BackendBeforeStore ==
    [][(last'.op = "setProfile" /\ instance # NoInstance) =>
          /\ last'.calls # <<>>
          /\ last'.calls[1] = Event("setProfile", instance.id, last'.arg)
          /\ \A j \in DOMAIN last'.calls :
                last'.calls[j].ev \in {"Settings.setProfile", "writeFile"} => j > 1
          /\ last'.out = "BackendError" =>
                /\ Len(last'.calls) = 1
                /\ UNCHANGED <<settings, disk, instance>>
          /\ (settings' # settings \/ disk' # disk) =>
                /\ last'.out # "BackendError"
                /\ instance'.profile = last'.arg
                /\ settings'.profile = last'.arg
          /\ disk' # disk => ProfileOnDisk(disk') = last'.arg
          /\ last'.out = "void" =>
                /\ instance'.profile = last'.arg
                /\ settings'.profile = last'.arg
                /\ ProfileOnDisk(disk') = last'.arg
      ]_vars

\* setProfile("work") has failed in the backend while the store and the file
\* still carry "main"
C6_Witness ==
    /\ last.op = "setProfile" /\ last.arg = "work" /\ last.out = "BackendError"
    /\ instance # NoInstance /\ instance.profile = "main"
    /\ settings.profile = "main" /\ ProfileOnDisk(disk) = "main"

\* the recognized fields of the in-memory document
Fields(s) == <<s.hooks, s.hostname, s.profile, s.repository>>

\* C7: a load() or a reload() that follows a successful save() and does not
\* fail leaves hooks, hostname, profile and repository equal to what they
\* were before it, that is to what save() wrote.
C7_RoundTrip ==
    [][(/\ last.op = "Settings.save" /\ last.out = "void"
        /\ last'.op \in {"Settings.load", "reload"}
        /\ last'.out \notin Errors)
       => Fields(settings') = Fields(settings)]_vars

\* load() has read back a file that save() wrote for a document with hooks,
\* profile "work" and no hostname
C7_Witness ==
    /\ last.op = "Settings.load" /\ last.out = "void"
    /\ disk.exists /\ disk.data = yaml_stringify(SettingsData(settings))
    /\ settings.hooks # <<>> /\ settings.profile = "work"
    /\ settings.hostname = undefined

\* the file holds a document that parses and has no repository property
LacksRepository ==
    /\ disk.exists /\ disk.data # <<>>
    /\ \A i \in DOMAIN disk.data : disk.data[i].k \notin {"repository", "?"}

\* a load() or reload() of a document without repository does not fail on
\* the document, leaves the inert configuration and logs the error
FallsBack ==
    (/\ last'.op \in {"Settings.load", "reload"}
     /\ last'.op = "reload" => settings.loaded
     /\ LacksRepository)
    => /\ last'.out \in {"void", "true", "false", "IoError", "BackendError"}
       /\ last'.out # "IoError" =>
             /\ settings'.repository = [type |-> "none"]
             /\ settings'.profile = ""
       /\ (last'.out # "IoError" /\ (last'.op = "Settings.load" \/ Changed)) =>
             \E j \in DOMAIN last'.calls :
                 last'.calls[j] = Event("Logger.error", 0, "repository")

C9_Reset ==
    [][/\ last'.op = "reset" =>
             /\ UNCHANGED <<settings, disk, created>>
             /\ IF instance # NoInstance
                THEN /\ last'.calls = <<Event("terminate", instance.id, "")>>
                     /\ last'.out \in {"void", "BackendError"}
                     /\ last'.out = "void" => instance' = NoInstance
                ELSE /\ last'.calls = <<>>
                     /\ last'.out = "void"
                     /\ instance' = instance
       /\ (last.op = "reset" /\ last.out = "void" /\ last'.op = "get" /\ settings.loaded) =>
             /\ instance = NoInstance
             /\ \A v \in Variants :
                   Names(settings.repository, v) =>
                       /\ last'.calls[1] = Event("new", created + 1, v)
                       /\ created' = created + 1
                       /\ instance'.id = created + 1 /\ instance'.variant = v]_vars

\* reset() has terminated the first instance and the Selector holds none
C9_Witness ==
    /\ last.op = "reset" /\ last.out = "void"
    /\ last.calls = <<Event("terminate", 1, "")>>
    /\ instance = NoInstance /\ created = 1

\* C10: a Selector.reload() that finds the file changed while no instance is
\* live (after a completed load(), and meeting no fault of the file system)
\* returns true, replaces the in-memory document by what is on disk,
\* constructs no backend and leaves the Selector without an instance.
C10_ReloadWithoutInstance ==
    [][(/\ last'.op = "reload" /\ HasLoaded
        /\ instance = NoInstance /\ Changed
        /\ ~Faulted(last'.out))
       => /\ last'.out = "true"
          /\ settings'.hash = Hash(OnDisk)
          /\ Lifecycle(last'.calls) = <<>>
          /\ instance' = NoInstance
          /\ created' = created]_vars

\* the backends constructed so far on which no terminate() has completed
Live == (1..created) \ terminated

\* C11: between the calls of the selector, run one at a time, at most one
\* backend has been constructed and not terminated, and it is the one the
\* selector holds.
C11_AtMostOneLive ==
    /\ Cardinality(Live) <= 1
    /\ Live \subseteq {instance.id}

\* a reload() has terminated the first backend and the second one, which the
\* selector holds, is the only one live
C11_Witness ==
    /\ last.op = "reload" /\ last.out = "true"
    /\ created = 2 /\ terminated = {1}
    /\ Live = {2} /\ instance.id = 2

\* the digest the store keeps is that of the last bytes read or written
HashOfLastBytes == seen.any => settings.hash = Hash(seen.data)

\* C12: every load(), reload(), save() and setProfile(), failing ones
\* included (set aside those that yaml.parse fails), leaves the store's
\* digest equal to the digest of the last bytes this process read from or
\* wrote to the settings file, if it was so before.
C12_HashInvariant ==
    [][(/\ HashOfLastBytes
        /\ last'.op \in {"Settings.load", "reload", "Settings.save", "setProfile"}
        /\ last'.out # "ParseError")
       => HashOfLastBytes']_vars

\* the file holds text that yaml.parse rejects
Unparsable == disk.exists /\ ~yaml_parse(disk.data).ok

\* C13: a load() or a reload() of a file that cannot be parsed (meeting no
\* fault of the file system or of a backend) does not fail: it ends
\* normally and leaves the store with the inert configuration, repository
\* {type: none}.
C13_ParseErrorsCaught ==
    [][(/\ last'.op \in {"Settings.load", "reload"}
        /\ last'.op = "reload" => settings.loaded
        /\ Unparsable
        /\ ~Faulted(last'.out))
       => /\ last'.out \in {"void", "true", "false"}
          /\ settings'.repository.type = RepositoryType.DUMMY]_vars

\* a repository section of type git that gives both a path and a url
GitBoth(repository) ==
    /\ repository.type = "git"
    /\ Gives(repository, "path") /\ Gives(repository, "url")

\* C14 as stated: a get() that finds no live instance, on a document of type
\* git with both path and url, fails with the "mysterious type" error and
\* constructs no backend.
C14_AsStated ==
    [][(/\ last'.op = "get" /\ instance = NoInstance /\ settings.loaded
        /\ GitBoth(settings.repository))
       => /\ last'.out = "MysteriousType"
          /\ last'.calls = <<>>
          /\ created' = created]_vars

\* C14, amended: a get() that finds no live instance, on a document of type
\* git with both path and url, raises no configuration error: it constructs
\* the local git backend (path takes precedence over url), calls
\* setProfile(document.profile) on it and never constructs the remote one.
C14_PathTakesPrecedence ==
    [][(/\ last'.op = "get" /\ instance = NoInstance /\ settings.loaded
        /\ GitBoth(settings.repository))
       => /\ last'.out \in {"return", "BackendError"}
          /\ last'.calls = <<Event("new", created + 1, "LocalGitRepository"),
                             Event("setProfile", created + 1, settings.profile)>>
          /\ instance'.variant = "LocalGitRepository"
          /\ created' = created + 1]_vars

\* get() has returned the local git backend for a document of type git that
\* gives a path and a url
C14_Witness ==
    /\ last.op = "get" /\ last.out = "return" /\ Len(last.calls) = 2
    /\ GitBoth(settings.repository)
    /\ instance.variant = "LocalGitRepository" /\ last.ret = instance.id

\* the live instance, if any, is of the variant the store's document names
\* and its active profile is the document's
Consistent ==
    instance # NoInstance =>
        /\ Names(settings.repository, instance.variant)
        /\ instance.profile = settings.profile

\* C15: every get(), reload(), reset() and setProfile() run to its end,
\* failing ones included, leaves the live instance consistent with the
\* store's document if it was so before.
C15_InstanceConsistent ==
    [][(/\ Consistent
        /\ last'.op \in {"get", "reload", "reset", "setProfile"})
       => Consistent']_vars

\* the settings file holds a document: it exists and is not empty
Present == disk.exists /\ disk.data # <<>>

\* how often an operation called ev on the file named arg
Count(calls, ev, arg) ==
    Len(SelectSeq(calls, LAMBDA e : e.ev = ev /\ e.arg = arg))

\* C16: a load() that completes has taken exactly one of three paths.  With
\* a document present it has read it, taken its fields and its digest and
\* written nothing; otherwise, with the bundled template, it has read the
\* template and written its bytes to the file; otherwise it has written the
\* serialized defaults without reading a template.  A load(), completed or
\* not, writes the file only when no document was present, and after a
\* completed load() the file exists and the store's digest is that of its
\* bytes.
C16_LoadPaths ==
    [][last'.op = "Settings.load" =>
          LET calls == last'.calls
              writes == Count(calls, "writeFile", "settings.yml")
              templates == Count(calls, "readFile", "default-settings.yml")
          IN  /\ writes > 0 => ~Present
              /\ last'.out = "void" =>
                    /\ disk'.exists /\ settings'.hash = Hash(disk'.data)
                    /\ IF Present
                       THEN /\ Count(calls, "readFile", "settings.yml") = 1
                            /\ writes = 0 /\ templates = 0
                            /\ disk' = disk
                            /\ settings'.profile \in {ProfileOnDisk(disk), ""}
                       ELSE IF templates > 0
                       THEN /\ templates = 1 /\ writes = 1
                            /\ disk'.data = DefaultSettingsYml
                            /\ settings'.profile = ProfileOnDisk(disk')
                       ELSE /\ writes = 1
                            /\ Fields(settings')
                                   = <<<<>>, defaults.hostname, defaults.profile,
                                       defaults.repository>>
                            /\ disk'.data = yaml_stringify(defaults)]_vars

\* load() has found no document, read the bundled template and written it to
\* the settings file
C16_Witness ==
    /\ last.op = "Settings.load" /\ last.out = "void"
    /\ Count(last.calls, "readFile", "default-settings.yml") = 1
    /\ Count(last.calls, "writeFile", "settings.yml") = 1
    /\ disk = File(DefaultSettingsYml) /\ settings.hash = Hash(DefaultSettingsYml)

\* the operation ended because the setProfile() that create() calls on the
\* backend it has just constructed threw
ConstructionProfileFailed(op) ==
    /\ op.out = "BackendError" /\ Len(op.calls) >= 2
    /\ op.calls[Len(op.calls)].ev = "setProfile"
    /\ op.calls[Len(op.calls) - 1] =
           Event("new", op.calls[Len(op.calls)].id, op.calls[Len(op.calls) - 1].arg)

\* C17: a get() or a reload() in which the construction-time setProfile()
\* fails does not leave the backend it constructed as the live instance, and
\* the get() that follows such a call does not return that backend.
C17_FailedInstanceNotKept ==
    [][/\ (last'.op \in {"get", "reload"} /\ ConstructionProfileFailed(last'))
          => instance'.id # last'.calls[Len(last'.calls)].id
       /\ (/\ last.op \in {"get", "reload"} /\ ConstructionProfileFailed(last)
           /\ last'.op = "get" /\ last'.out = "return")
          => last'.ret # last.calls[Len(last.calls)].id]_vars

\* C20: a reload() that directly follows a completed setProfile(p) or
\* save(), the file untouched in between, and that reads the file, returns
\* false, calls nothing on a backend, keeps the live instance and every field
\* of the store, and the profile is p.
C20_OwnWritesUnchanged ==
    [][(/\ last.op \in {"setProfile", "Settings.save"} /\ last.out = "void"
        /\ last'.op = "reload" /\ last'.out # "IoError")
       => /\ last'.out = "false"
          /\ Lifecycle(last'.calls) = <<>>
          /\ instance' = instance
          /\ settings' = settings
          /\ last.op = "setProfile" =>
                /\ settings'.profile = last.arg
                /\ instance # NoInstance => instance'.profile = last.arg]_vars

\* reload() has returned false on the file the store wrote for profile
\* "work" while the file backend, switched to "work", is live
C20_Witness ==
    /\ last.op = "reload" /\ last.out = "false"
    /\ settings.profile = "work" /\ disk.data = yaml_stringify(SettingsData(settings))
    /\ instance.variant = "FileRepository" /\ instance.profile = "work"

\* the backends on which the selector has called terminate(): the call has
\* completed, or a reload() or reset() is suspended inside it
TerminateCalled ==
    terminated \cup {tasks[i].id : i \in {j \in DOMAIN tasks : tasks[j].pc = "terminate"}}

\* C18: a get() that returns a backend never returns one on which the
\* selector has already called terminate(), also while a reload() or a
\* reset() is suspended inside that call.
C18_NoUseAfterTerminate ==
    [][(last'.op = "get" /\ last'.out = "return" /\ last'.ret # 0)
       => last'.ret \notin TerminateCalled]_vars

\* C19: with the calls of the selector interleaved at their awaits, at most
\* one backend has been constructed and not terminated, and every backend
\* on which terminate() was never called is the one the selector holds.
C19_NoLeakedInstance ==
    /\ Cardinality((1..created) \ terminated) <= 1
    /\ (1..created) \ TerminateCalled \subseteq {instance.id}

====
